---- MODULE Spec2Model ----
(***************************************************************************)
(* State-machine model of the ever-archive core:                           *)
(*   - ArchiveData::new / ArchiveData::check     (src/src/archive_data.rs) *)
(*   - PackageEntryId codec                  (src/src/package_entry_id.rs) *)
(*   - ArchivePackageViewReader               (src/src/archive_package.rs) *)
(*   - deserialize_block                         (src/src/archive_data.rs) *)
(*                                                                         *)
(* Option<T> values are sequences of length <= 1 (<<>> is None, <<x>> is   *)
(* Some(x)).  Strings that the code parses are sequences of one-character  *)
(* strings.  Widths that the TLC integers cannot hold are scaled down and  *)
(* named: the u64 shard prefix is PrefixBits wide, a 256-bit hash is       *)
(* HashBytes bytes long.                                                   *)
(***************************************************************************)
EXTENDS Integers, Sequences, FiniteSets, TLC

VARIABLES
    blocks,         \* ArchiveData.blocks: BlockId -> ArchiveDataEntry
    mc_block_ids,   \* ArchiveData.mc_block_ids: seqno -> BlockId
    pc,             \* position of the caller: new() running, returned, check() returned
    new_result,     \* what ArchiveData::new returned ("Ok" or the error), "" while running
    check_result,   \* what ArchiveData::check returned, NoResult before it ran
    entry,          \* the entry of the last loop iteration of new() and what became of it
    cmd_result,     \* what CmdCheck::check_archive returned ("Ok" or "Err"), "" before
    seen,           \* the (kind, identifier) of the entries stored in the store at hand
    filename,       \* the entry name handed to PackageEntryId::from_filename
    named,          \* Some((kind, id)) while filename is the name of that identifier
    codec_pc,       \* codec caller: nothing yet, a name at hand, from_filename returned
    codec_out,      \* what from_filename did: an identifier, an error, a panic
    buf_len,        \* data.len() of the buffer a reader is made on
    buf_magic,      \* whether the buffer's first four bytes are ARCHIVE_PREFIX
    overflow_checks,\* the build: integer overflow panics (debug) or wraps (release)
    offset,         \* ArchivePackageViewReader.offset
    reader_pc,      \* reader caller: no reader yet, a reader at hand, reader dropped
    read_out,       \* what the last call on the buffer did
    block_orig,     \* the payload a block identifier was made for
    decode_id,      \* the identifier handed to deserialize_block, if any
    block_data,     \* the payload handed to deserialize_block
    block_pc,       \* decoding caller: before the identifier, before the call, after
    block_out,      \* what deserialize_block returned
    proof_id,       \* the identifier handed to deserialize_block_proof, if any
    proof_data,     \* the proof payload handed to it, if any
    proof_is_link,  \* its is_link argument
    proof_pc,       \* proof decoding caller: before the arguments, before the call, after
    proof_out,      \* what deserialize_block_proof returned
    files,          \* files.len() of the upload command
    spawned,        \* tasks CmdUpload::run has spawned so far
    main_pc,        \* CmdUpload::run: spawning, waiting at the barrier, returned
    task_pc,        \* per archive task: where it stands
    permits,        \* permits the semaphore has left
    waiters,        \* tasks queued in semaphore.acquire(), first come first
    arrived         \* callers of barier.wait() so far

arch_vars ==
    <<blocks, mc_block_ids, pc, new_result, check_result, entry, cmd_result, seen>>
codec_vars == <<filename, named, codec_pc, codec_out>>
reader_vars == <<buf_len, buf_magic, overflow_checks, offset, reader_pc, read_out>>
block_vars == <<block_orig, decode_id, block_data, block_pc, block_out>>
proof_vars == <<proof_id, proof_data, proof_is_link, proof_pc, proof_out>>
upload_vars == <<files, spawned, main_pc, task_pc, permits, waiters, arrived>>
vars == <<blocks, mc_block_ids, pc, new_result, check_result, entry, cmd_result, seen,
          filename, named, codec_pc, codec_out,
          buf_len, buf_magic, overflow_checks, offset, reader_pc, read_out,
          block_orig, decode_id, block_data, block_pc, block_out,
          proof_id, proof_data, proof_is_link, proof_pc, proof_out,
          files, spawned, main_pc, task_pc, permits, waiters, arrived>>
\* what the steps of one component leave alone
NonArchVars == <<codec_vars, reader_vars, block_vars, upload_vars, proof_vars>>
NonCodecVars == <<arch_vars, reader_vars, block_vars, upload_vars, proof_vars>>
NonReaderVars == <<arch_vars, codec_vars, block_vars, upload_vars, proof_vars>>
NonBlockVars == <<arch_vars, codec_vars, reader_vars, upload_vars, proof_vars>>
NonProofVars == <<arch_vars, codec_vars, reader_vars, block_vars, upload_vars>>
NonUploadVars == <<arch_vars, codec_vars, reader_vars, block_vars, proof_vars>>

(***************************************************************************)
(* Small helpers                                                           *)
(***************************************************************************)
SetMin(S) == CHOOSE x \in S : \A y \in S : x <= y
SetMax(S) == CHOOSE x \in S : \A y \in S : x >= y

RECURSIVE SortedSeq(_)
\* the ascending iteration order of a BTreeSet<u32> / the keys of a BTreeMap
SortedSeq(S) == IF S = {} THEN <<>> ELSE <<SetMin(S)>> \o SortedSeq(S \ {SetMin(S)})

(***************************************************************************)
(* ShardIdent (everscale_types): workchain and a tagged binary prefix.     *)
(* The prefix is PrefixBits wide here (64 in the library); the lowest set  *)
(* bit is the tag that marks the prefix length.                            *)
(***************************************************************************)
PrefixBits == 8
PREFIX_FULL == 2 ^ (PrefixBits - 1)
\* the library allows 60 of the 64 bits as prefix bits
MAX_SPLIT_DEPTH == PrefixBits - 4
MASTERCHAIN_WC == -1

RECURSIVE PrefixTag(_)
\* lowest set bit of a non-zero prefix
PrefixTag(p) == IF p % 2 = 1 THEN 1 ELSE 2 * PrefixTag(p \div 2)

RECURSIVE TrailingZeros(_)
TrailingZeros(p) == IF p % 2 = 1 THEN 0 ELSE 1 + TrailingZeros(p \div 2)

\* number of prefix bits in front of the tag
PrefixLen(p) == PrefixBits - 1 - TrailingZeros(p)

BitIsSet(x, b) == (x \div b) % 2 = 1
OrBit(x, b) == IF BitIsSet(x, b) THEN x ELSE x + b

\* ShardIdent::new: None for a zero prefix (no tag bit) or a prefix longer
\* than MAX_SPLIT_DEPTH
ShardIdentNew(workchain, prefix) ==
    IF prefix = 0 \/ PrefixLen(prefix) > MAX_SPLIT_DEPTH
    THEN <<>>
    ELSE <<[workchain |-> workchain, prefix |-> prefix]>>

\* ShardIdent::split: the two children, None at maximum depth
ShardSplit(sh) ==
    IF PrefixLen(sh.prefix) < MAX_SPLIT_DEPTH
    THEN LET delta == PrefixTag(sh.prefix) \div 2
         IN  << [workchain |-> sh.workchain, prefix |-> sh.prefix - delta],
                [workchain |-> sh.workchain, prefix |-> sh.prefix + delta] >>
    ELSE <<>>

\* ShardIdent::merge: the parent, None for a root shard
ShardMerge(sh) ==
    IF sh.prefix = PREFIX_FULL
    THEN <<>>
    ELSE LET tag == PrefixTag(sh.prefix)
         IN  <<[workchain |-> sh.workchain,
                prefix |-> OrBit(sh.prefix - tag, 2 * tag)]>>

(***************************************************************************)
(* Payloads.  A 256-bit hash is a sequence of HashBytes bytes.  A block    *)
(* payload is a sequence of DataLen bits; the external functions applied   *)
(* to it (SHA-256, Boc::decode, Cell::repr_hash, Block::load_from) are     *)
(* fixed functions of those bits.  SHA-256 is injective on the payloads    *)
(* (collision resistance).                                                 *)
(***************************************************************************)
HashBytes == 2
DataLen == 3

BlockDatas == [1..DataLen -> {0, 1}]

RECURSIVE BitsToNat(_, _)
BitsToNat(d, n) == IF n = 0 THEN 0 ELSE 2 * BitsToNat(d, n - 1) + d[n]

\* sha2::Sha256::digest(data)
Sha256(data) == [i \in 1..HashBytes |-> IF i = 1 THEN BitsToNat(data, DataLen) ELSE 0]

\* everscale_types::boc::Boc::decode(data): Some(root cell) or None
BocDecode(data) ==
    IF data[1] = 1 THEN <<[repr |-> data[2], block |-> data[3] = 1]>> ELSE <<>>

\* Cell::repr_hash
ReprHash(cell) == [i \in 1..HashBytes |-> IF cell.repr = 1 THEN 255 ELSE 0]

\* Block::load_from(&mut root.as_slice()) succeeds
BlockLoads(cell) == cell.block

\* a bug: the payload decoded before its file hash is looked at
DeserializeBlock_DecodeFirst(id, data) ==
    LET root == BocDecode(data)
    IN  IF root = <<>> THEN "InvalidBlockData"
        ELSE IF id.file_hash # Sha256(data) THEN "InvalidFileHash"
        ELSE IF id.root_hash # ReprHash(root[1]) THEN "InvalidRootHash"
        ELSE IF BlockLoads(root[1]) THEN "Ok"
        ELSE "InvalidBlockData"

\* deserialize_block: "Ok" or the ArchiveDataError
DeserializeBlock(id, data) ==
    IF id.file_hash # Sha256(data)
    THEN "InvalidFileHash"
    ELSE LET root == BocDecode(data)
         IN  IF root = <<>> THEN "InvalidBlockData"
             ELSE IF id.root_hash # ReprHash(root[1]) THEN "InvalidRootHash"
             ELSE IF BlockLoads(root[1]) THEN "Ok"
             ELSE "InvalidBlockData"

\* `!x` on an i32 is the bitwise complement
BitNot(x) == -x - 1

\* deserialize_block_proof: "Ok" or the ArchiveDataError.  A proof payload
\* is what the external decoder makes of it: whether Boc::decode and
\* BlockProof::load_from succeed, and the proof_for it carries.
DeserializeBlockProof(block_id, data, is_link) ==
    IF ~data.boc \/ ~data.loads THEN "InvalidBlockProof"
    ELSE IF data.proof_for # block_id THEN "ProofForAnotherBlock"
    ELSE IF BitNot(block_id.shard.workchain) = -1 /\ ~is_link
         THEN "ProofForNonMasterchainBlock"
    ELSE "Ok"

(***************************************************************************)
(* The identifiers and payloads the archives of the model are made of     *)
(***************************************************************************)
MaxSeqno == 2
\* records a store holds at most: in the runs that assemble entries of every
\* kind, and in the runs that assemble blocks and check the store
MaxRecordsNew == 3
MaxRecordsCheck == 4
MaxRecordsCmd == 3

MC == [workchain |-> MASTERCHAIN_WC, prefix |-> PREFIX_FULL]
BaseShard == [workchain |-> 0, prefix |-> PREFIX_FULL]
Child0(sh) == ShardSplit(sh)[1]
Child1(sh) == ShardSplit(sh)[2]

\* the masterchain, a workchain root S, its children S0 and S1 and the
\* grandchild S00
CheckShards == {MC, BaseShard, Child0(BaseShard), Child1(BaseShard), Child0(Child0(BaseShard))}
NewShards == {MC, BaseShard}

\* a payload that decodes to a block, another one with another root hash,
\* and one that is no bag of cells
GoodData == [i \in 1..DataLen |-> 1]
OtherGoodData == [i \in 1..DataLen |-> IF i = 2 THEN 0 ELSE 1]
UndecodableData == [i \in 1..DataLen |-> 0]

\* the identifier computed from a payload
MkBlockId(sh, sq, data) ==
    [shard |-> sh, seqno |-> sq,
     root_hash |-> [i \in 1..HashBytes |-> IF data[2] = 1 THEN 255 ELSE 0],
     file_hash |-> Sha256(data)]

CheckIds ==
    {MkBlockId(sh, sq, GoodData) : sh \in CheckShards, sq \in 0..MaxSeqno}
    \cup {MkBlockId(MC, 0, OtherGoodData)}
CheckDatas == {GoodData, OtherGoodData}

\* the identifiers of the archives handed to the check command
CmdIds == {MkBlockId(sh, sq, GoodData) : sh \in NewShards, sq \in 0..MaxSeqno}

\* the same and a second masterchain block of seqno 0
OrderIds == CmdIds \cup {MkBlockId(MC, 0, OtherGoodData)}

NewIds ==
    {MkBlockId(sh, sq, GoodData) : sh \in NewShards, sq \in 0..(MaxSeqno - 1)}
    \cup {MkBlockId(MC, 0, OtherGoodData), MkBlockId(BaseShard, 0, UndecodableData)}

\* payloads of block entries: two that decode to blocks, one that is no bag
\* of cells, one whose root cell is no block
NewDatas ==
    {GoodData, OtherGoodData, UndecodableData, [i \in 1..DataLen |-> IF i = 3 THEN 0 ELSE 1]}

ProofDatas(id) ==
    [boc : BOOLEAN, loads : BOOLEAN,
     proof_for : {id, [id EXCEPT !.seqno = id.seqno + 1]}]

(***************************************************************************)
(* ArchiveData::new, one loop iteration per step                           *)
(***************************************************************************)
NoShard == [workchain |-> 0, prefix |-> 0]
NoResult == [err |-> "", shard |-> NoShard, seqno |-> 0]

EmptyEntry == [block |-> <<>>, proof |-> <<>>]

\* the entry of one loop iteration: its kind and identifier, whether its
\* payload decodes, what the iteration did with it ("stored", "skipped",
\* "failed"), and the parity of its position, which tells an entry from a
\* repetition of it
NoEntry == [kind |-> "", id |-> <<>>, payload_ok |-> FALSE, outcome |-> "", turn |-> 0]
ThisEntry(kind, id, payload_ok, outcome) ==
    [kind |-> kind, id |-> <<id>>, payload_ok |-> payload_ok, outcome |-> outcome,
     turn |-> 1 - entry.turn]

\* blocks.entry(id).or_insert_with(default)
EntryOrDefault(m, id) == IF id \in DOMAIN m THEN m[id] ELSE EmptyEntry

\* BTreeMap::insert
MapInsert(m, k, v) == [x \in DOMAIN m \cup {k} |-> IF x = k THEN v ELSE m[x]]

\* an `?` inside new(): the store under construction is dropped
NewFails(e) ==
    /\ blocks' = <<>>
    /\ mc_block_ids' = <<>>
    /\ pc' = "done"
    /\ new_result' = e
    /\ seen' = {}
    /\ UNCHANGED <<check_result, cmd_result>>

HasRoom(id, max) == id \in DOMAIN blocks \/ Cardinality(DOMAIN blocks) < max

\* ArchivePackageViewReader::new(data)? or reader.read_next()? fails
NewReaderError ==
    /\ pc = "new"
    /\ UNCHANGED NonArchVars
    /\ NewFails("InvalidPackage")
    /\ entry' = NoEntry

\* PackageEntryId::from_filename(entry.name)? fails
NewBadFilename ==
    /\ pc = "new"
    /\ UNCHANGED NonArchVars
    /\ NewFails("InvalidPackageEntryId")
    /\ entry' = NoEntry

\* PackageEntryId::Block(id)
NewBlockEntry(Ids, Datas, max) ==
    /\ pc = "new"
    /\ UNCHANGED NonArchVars
    /\ \E id \in Ids, data \in Datas :
         LET r == DeserializeBlock(id, data)
         IN  IF r # "Ok"
             THEN /\ NewFails(r)
                  /\ entry' = ThisEntry("Block", id, FALSE, "failed")
             ELSE /\ HasRoom(id, max)
                  /\ entry' = ThisEntry("Block", id, TRUE, "stored")
                  /\ seen' = seen \cup {<<"Block", id>>}
                  /\ blocks' = MapInsert(blocks, id,
                        [EntryOrDefault(blocks, id) EXCEPT !.block = <<data>>])
                  /\ mc_block_ids' =
                        IF id.shard.workchain = -1
                        THEN MapInsert(mc_block_ids, id.seqno, id)
                        ELSE mc_block_ids
                  /\ UNCHANGED <<pc, new_result, check_result, cmd_result>>

\* a bug: a masterchain proof stored without its seqno being registered
NewProofEntry_NotRegistered(Ids, max) ==
    /\ pc = "new"
    /\ UNCHANGED NonArchVars
    /\ \E id \in Ids :
         /\ id.shard.workchain = -1
         /\ \E data \in ProofDatas(id) :
              LET r == DeserializeBlockProof(id, data, FALSE)
              IN  IF r # "Ok"
                  THEN /\ NewFails(r)
                       /\ entry' = ThisEntry("Proof", id, FALSE, "failed")
                  ELSE /\ HasRoom(id, max)
                       /\ entry' = ThisEntry("Proof", id, TRUE, "stored")
                       /\ seen' = seen \cup {<<"Proof", id>>}
                       /\ blocks' = MapInsert(blocks, id,
                             [EntryOrDefault(blocks, id) EXCEPT !.proof = <<data>>])
                       /\ UNCHANGED <<mc_block_ids, pc, new_result, check_result, cmd_result>>

\* PackageEntryId::Proof(id) if id.shard.workchain() == -1
NewProofEntry(Ids, max) ==
    /\ pc = "new"
    /\ UNCHANGED NonArchVars
    /\ \E id \in Ids :
         /\ id.shard.workchain = -1
         /\ \E data \in ProofDatas(id) :
              LET r == DeserializeBlockProof(id, data, FALSE)
              IN  IF r # "Ok"
                  THEN /\ NewFails(r)
                       /\ entry' = ThisEntry("Proof", id, FALSE, "failed")
                  ELSE /\ HasRoom(id, max)
                       /\ entry' = ThisEntry("Proof", id, TRUE, "stored")
                       /\ seen' = seen \cup {<<"Proof", id>>}
                       /\ blocks' = MapInsert(blocks, id,
                             [EntryOrDefault(blocks, id) EXCEPT !.proof = <<data>>])
                       /\ mc_block_ids' = MapInsert(mc_block_ids, id.seqno, id)
                       /\ UNCHANGED <<pc, new_result, check_result, cmd_result>>

\* PackageEntryId::ProofLink(id) if id.shard.workchain() != -1
NewProofLinkEntry(Ids, max) ==
    /\ pc = "new"
    /\ UNCHANGED NonArchVars
    /\ \E id \in Ids :
         /\ id.shard.workchain # -1
         /\ \E data \in ProofDatas(id) :
              LET r == DeserializeBlockProof(id, data, TRUE)
              IN  IF r # "Ok"
                  THEN /\ NewFails(r)
                       /\ entry' = ThisEntry("ProofLink", id, FALSE, "failed")
                  ELSE /\ HasRoom(id, max)
                       /\ entry' = ThisEntry("ProofLink", id, TRUE, "stored")
                       /\ seen' = seen \cup {<<"ProofLink", id>>}
                       /\ blocks' = MapInsert(blocks, id,
                             [EntryOrDefault(blocks, id) EXCEPT !.proof = <<data>>])
                       /\ UNCHANGED <<mc_block_ids, pc, new_result, check_result, cmd_result>>

\* a bug: the payload of an entry that is not needed decoded all the same
NewSkippedEntry_Decodes(Ids) ==
    /\ pc = "new"
    /\ UNCHANGED NonArchVars
    /\ \E id \in Ids, kind \in {"Proof", "ProofLink"} :
         /\ (kind = "Proof") => id.shard.workchain # -1
         /\ (kind = "ProofLink") => id.shard.workchain = -1
         /\ \E data \in ProofDatas(id) :
              LET r == DeserializeBlockProof(id, data, kind = "ProofLink")
              IN  IF data.boc /\ data.loads
                  THEN /\ entry' = ThisEntry(kind, id, r = "Ok", "skipped")
                       /\ UNCHANGED <<blocks, mc_block_ids, pc, new_result, check_result, cmd_result, seen>>
                  ELSE /\ NewFails(r)
                       /\ entry' = ThisEntry(kind, id, FALSE, "failed")

\* `_ => continue`: a Proof outside the masterchain, a ProofLink inside it
NewSkippedEntry(Ids) ==
    /\ pc = "new"
    /\ UNCHANGED NonArchVars
    /\ \E id \in Ids, kind \in {"Proof", "ProofLink"} :
         /\ (kind = "Proof") => id.shard.workchain # -1
         /\ (kind = "ProofLink") => id.shard.workchain = -1
         /\ \E data \in ProofDatas(id) :
              entry' = ThisEntry(kind, id,
                          DeserializeBlockProof(id, data, kind = "ProofLink") = "Ok",
                          "skipped")
    /\ UNCHANGED <<blocks, mc_block_ids, pc, new_result, check_result, cmd_result, seen>>

\* read_next() returns None: Ok(res)
NewReturns ==
    /\ pc = "new"
    /\ UNCHANGED NonArchVars
    /\ pc' = "done"
    /\ new_result' = "Ok"
    /\ entry' = NoEntry
    /\ UNCHANGED <<blocks, mc_block_ids, check_result, cmd_result, seen>>

(***************************************************************************)
(* ArchiveData::check                                                      *)
(***************************************************************************)
\* mc_block_ids.values().next()
LowestMcId(mc) == IF DOMAIN mc = {} THEN <<>> ELSE <<mc[SetMin(DOMAIN mc)]>>
\* mc_block_ids.values().rev().next()
HighestMcId(mc) == IF DOMAIN mc = {} THEN <<>> ELSE <<mc[SetMax(DOMAIN mc)]>>

\* a bug: an empty index read as the range 0..0
McBounds_DefaultZero(mc) ==
    IF DOMAIN mc = {} THEN <<0, 0>>
    ELSE <<LowestMcId(mc)[1].seqno, HighestMcId(mc)[1].seqno>>

\* the match on (lowest_mc_id(), highest_mc_id()): Some of (left, right),
\* None where check returns EmptyArchive
McBounds(mc) ==
    LET lo == LowestMcId(mc)
        hi == HighestMcId(mc)
    IN  IF lo # <<>> /\ hi # <<>> THEN <<lo[1].seqno, hi[1].seqno>> ELSE <<>>

\* a bug: the range taken as right - left
McRangeMismatch_OffByOne(left, mc_block_count, right) == left + mc_block_count # right

\* (left as usize) + mc_block_count != (right as usize) + 1; both sides are
\* below 2^33, no usize overflows
McRangeMismatch(left, mc_block_count, right) == left + mc_block_count # right + 1

\* a bug: only the records that hold a block are grouped
GroupByShard_OnlyWithBlock(blks) ==
    [sh \in {id.shard : id \in {x \in DOMAIN blks : blks[x].block # <<>>}} |->
        {id.seqno : id \in {x \in DOMAIN blks : x.shard = sh /\ blks[x].block # <<>>}}]

\* the HashMap<ShardIdent, BTreeSet<u32>> grouping all block ids by shard
GroupByShard(blks) ==
    [sh \in {id.shard : id \in DOMAIN blks} |->
        {id.seqno : id \in {x \in DOMAIN blks : x.shard = sh}}]

MapHas(map, sh, seqno) == sh \in DOMAIN map /\ seqno \in map[sh]

\* a bug: the previous block searched in every shard of the archive
ContainsPreviousBlock_AnyShard(map, shard_ident, prev_seqno) ==
    \E sh \in DOMAIN map : prev_seqno \in map[sh]

\* a bug: the right child never searched
ContainsPreviousBlock_LeftOnly(map, shard_ident, prev_seqno) ==
    LET sp == ShardSplit(shard_ident)
        mg == ShardMerge(shard_ident)
    IN  \/ sp # <<>> /\ MapHas(map, sp[1], prev_seqno)
        \/ mg # <<>> /\ MapHas(map, mg[1], prev_seqno)

ContainsPreviousBlock(map, shard_ident, prev_seqno) ==
    LET sp == ShardSplit(shard_ident)
        mg == ShardMerge(shard_ident)
    IN  IF sp # <<>> /\ MapHas(map, sp[1], prev_seqno) THEN TRUE
        ELSE IF sp # <<>> /\ MapHas(map, sp[2], prev_seqno) THEN TRUE
        ELSE IF mg # <<>> /\ MapHas(map, mg[1], prev_seqno) THEN TRUE
        ELSE FALSE

RECURSIVE WalkShard(_, _, _, _, _)
\* the inner loop over one shard's seqnos from position i on: Some(seqno) of
\* the first inconsistent block, None when the loop runs to its end
WalkShard(map, shard_ident, seqnos, i, prev) ==
    IF i > Len(seqnos) THEN <<>>
    ELSE LET seqno == seqnos[i]
         IN  IF seqno # prev + 1
                /\ ~ContainsPreviousBlock(map, shard_ident, seqno - 1)
             THEN <<seqno>>
             ELSE WalkShard(map, shard_ident, seqnos, i + 1, seqno)

\* one iteration of the outer loop
CheckShard(map, shard_ident) ==
    LET seqnos == SortedSeq(map[shard_ident])
    IN  IF seqnos = <<>> THEN <<>>
        ELSE WalkShard(map, shard_ident, seqnos, 2, seqnos[1])

CheckOk == [err |-> "Ok", shard |-> NoShard, seqno |-> 0]
CheckErr(e) == [err |-> e, shard |-> NoShard, seqno |-> 0]

\* every value check() can return on the store: the HashMap is iterated in
\* an unspecified order, so the first failing shard met can be any of them
CheckOutcomes(mc, blks) ==
    LET mc_block_count == Cardinality(DOMAIN mc)
        bounds == McBounds(mc)
    IN  IF bounds = <<>>
        THEN {CheckErr("EmptyArchive")}
        ELSE IF McRangeMismatch(bounds[1], mc_block_count, bounds[2])
        THEN {CheckErr("InconsistentMasterchainBlocks")}
        ELSE LET map == GroupByShard(blks)
                 bad == {sh \in DOMAIN map : CheckShard(map, sh) # <<>>}
             IN  IF bad = {}
                 THEN {CheckOk}
                 ELSE {[err |-> "InconsistentShardchainBlock", shard |-> sh,
                        seqno |-> CheckShard(map, sh)[1]] : sh \in bad}

Check ==
    /\ pc = "done"
    /\ UNCHANGED NonArchVars
    /\ new_result = "Ok"
    /\ \E r \in CheckOutcomes(mc_block_ids, blocks) : check_result' = r
    /\ pc' = "checked"
    /\ UNCHANGED <<blocks, mc_block_ids, new_result, entry, cmd_result, seen>>

(***************************************************************************)
(* CmdCheck::check_archive, after ArchiveData::new returned                *)
(***************************************************************************)
\* ArchiveDataEntry::get_data succeeds: both slots are filled
HasData(e) == e.block # <<>> /\ e.proof # <<>>

\* the body of check_archive behind new(): read_shard_blocks on the first
\* and the last masterchain block, then get_data and load_info on every
\* record.  loads_ok tells whether the block parts read on the way
\* (load_extra, load_custom, load_info) load.
CheckArchive(mc, blks, loads_ok) ==
    LET first == LowestMcId(mc)
        last == HighestMcId(mc)
    IN  IF first # <<>> /\ ~HasData(blks[first[1]]) THEN "Err"
        ELSE IF first # <<>> /\ ~loads_ok THEN "Err"
        ELSE IF last # <<>> /\ ~HasData(blks[last[1]]) THEN "Err"
        ELSE IF \E id \in DOMAIN blks : ~HasData(blks[id]) THEN "Err"
        ELSE IF blks # <<>> /\ ~loads_ok THEN "Err"
        ELSE "Ok"

\* check_archive from `ArchiveData::new(..)?` on
CmdCheckArchive ==
    /\ pc = "done"
    /\ UNCHANGED NonArchVars
    /\ IF new_result # "Ok"
       THEN cmd_result' = "Err"
       ELSE \E loads_ok \in BOOLEAN :
              cmd_result' = CheckArchive(mc_block_ids, blocks, loads_ok)
    /\ pc' = "reported"
    /\ UNCHANGED <<blocks, mc_block_ids, new_result, check_result, entry, seen>>

(***************************************************************************)
(* PackageEntryId: the names of the entries.  A string is a sequence of    *)
(* one-character strings.  The i32 workchain is WorkchainBits wide, the    *)
(* u32 seqno SeqnoBits, the u64 prefix PrefixBits (16 hex digits in the    *)
(* code, PrefixHexWidth here).                                             *)
(***************************************************************************)
WorkchainBits == 8
SeqnoBits == 8
I32_MAX == 2 ^ (WorkchainBits - 1) - 1
I32_MIN == -(2 ^ (WorkchainBits - 1))
U32_MAX == 2 ^ SeqnoBits - 1
U64_MAX == 2 ^ PrefixBits - 1
PrefixHexWidth == (PrefixBits + 3) \div 4

PACKAGE_ENTRY_BLOCK == <<"b", "l", "o", "c", "k", "_">>
PACKAGE_ENTRY_PROOF == <<"p", "r", "o", "o", "f", "_">>
PACKAGE_ENTRY_PROOF_LINK == <<"p", "r", "o", "o", "f", "l", "i", "n", "k", "_">>

LowerHexDigits == <<"0", "1", "2", "3", "4", "5", "6", "7", "8", "9",
                    "a", "b", "c", "d", "e", "f">>
UpperHexDigits == <<"0", "1", "2", "3", "4", "5", "6", "7", "8", "9",
                    "A", "B", "C", "D", "E", "F">>

\* char::to_digit(radix): the digit's value, -1 for any other character
DigitValue(c, radix) ==
    IF \E i \in 1..radix : LowerHexDigits[i] = c
    THEN (CHOOSE i \in 1..radix : LowerHexDigits[i] = c) - 1
    ELSE IF \E i \in 1..radix : UpperHexDigits[i] = c
    THEN (CHOOSE i \in 1..radix : UpperHexDigits[i] = c) - 1
    ELSE -1

RECURSIVE FormatRadix(_, _, _)
\* Display / LowerHex / UpperHex of a non-negative integer
FormatRadix(n, radix, digits) ==
    IF n < radix THEN <<digits[n + 1]>>
    ELSE FormatRadix(n \div radix, radix, digits) \o <<digits[(n % radix) + 1]>>

\* `{}` of an i32
FormatI32(n) ==
    IF n < 0 THEN <<"-">> \o FormatRadix(-n, 10, LowerHexDigits)
    ELSE FormatRadix(n, 10, LowerHexDigits)

RECURSIVE PadLeft(_, _)
PadLeft(str, width) == IF Len(str) >= width THEN str ELSE PadLeft(<<"0">> \o str, width)

\* `{:016x}` of the shard prefix
FormatPrefix(p) == PadLeft(FormatRadix(p, 16, LowerHexDigits), PrefixHexWidth)

RECURSIVE HexEncodeUpper(_)
\* hex::encode_upper
HexEncodeUpper(bytes) ==
    IF bytes = <<>> THEN <<>>
    ELSE <<UpperHexDigits[(bytes[1] \div 16) + 1], UpperHexDigits[(bytes[1] % 16) + 1]>>
         \o HexEncodeUpper(Tail(bytes))

\* a bug: the two hashes written in the other order
BlockIdFilename_HashesSwapped(id) ==
    <<"(">> \o FormatI32(id.shard.workchain) \o <<",">> \o FormatPrefix(id.shard.prefix)
    \o <<",">> \o FormatRadix(id.seqno, 10, LowerHexDigits) \o <<")", ":">>
    \o HexEncodeUpper(id.file_hash) \o <<":">> \o HexEncodeUpper(id.root_hash)

\* impl GetFileName for BlockId: "({},{:016x},{}):{}:{}"
BlockIdFilename(id) ==
    <<"(">> \o FormatI32(id.shard.workchain) \o <<",">> \o FormatPrefix(id.shard.prefix)
    \o <<",">> \o FormatRadix(id.seqno, 10, LowerHexDigits) \o <<")", ":">>
    \o HexEncodeUpper(id.root_hash) \o <<":">> \o HexEncodeUpper(id.file_hash)

FilenamePrefix(kind) ==
    CASE kind = "Block" -> PACKAGE_ENTRY_BLOCK
      [] kind = "Proof" -> PACKAGE_ENTRY_PROOF
      [] kind = "ProofLink" -> PACKAGE_ENTRY_PROOF_LINK

\* impl GetFileName for PackageEntryId
EntryFilename(kind, id) == FilenamePrefix(kind) \o BlockIdFilename(id)

\* str::find(char): the first position, 0 for None
Find(str, c) ==
    IF \E i \in 1..Len(str) : str[i] = c
    THEN SetMin({i \in 1..Len(str) : str[i] = c})
    ELSE 0

RECURSIVE Split(_, _)
\* str::split(char), collected
Split(str, c) ==
    LET i == Find(str, c)
    IN  IF i = 0 THEN <<str>>
        ELSE <<SubSeq(str, 1, i - 1)>> \o Split(SubSeq(str, i + 1, Len(str)), c)

\* str::strip_prefix(char) / strip_suffix(char)
StripPrefix(str, c) == IF str # <<>> /\ Head(str) = c THEN <<Tail(str)>> ELSE <<>>
StripSuffix(str, c) ==
    IF str # <<>> /\ str[Len(str)] = c THEN <<SubSeq(str, 1, Len(str) - 1)>> ELSE <<>>

RECURSIVE ParseDigits(_, _, _, _)
\* the digit loop of from_str_radix: the value, -1 for a bad digit or a
\* value above max
ParseDigits(str, radix, max, acc) ==
    IF str = <<>> THEN acc
    ELSE LET d == DigitValue(Head(str), radix)
         IN  IF d < 0 THEN -1
             ELSE IF acc * radix + d > max THEN -1
             ELSE ParseDigits(Tail(str), radix, max, acc * radix + d)

\* u32::from_str / u64::from_str_radix: Some(value) or None.  An unsigned
\* integer may carry a "+", never a "-".
ParseUnsigned(str, radix, max) ==
    LET digits == IF str # <<>> /\ Head(str) = "+" THEN Tail(str) ELSE str
    IN  IF digits = <<>> THEN <<>>
        ELSE IF ParseDigits(digits, radix, max, 0) < 0 THEN <<>>
        ELSE <<ParseDigits(digits, radix, max, 0)>>

\* i32::from_str: Some(value) or None
ParseI32(str) ==
    LET neg == str # <<>> /\ Head(str) = "-"
        digits == IF str # <<>> /\ Head(str) \in {"+", "-"} THEN Tail(str) ELSE str
        mag == ParseDigits(digits, 10, IF neg THEN -I32_MIN ELSE I32_MAX, 0)
    IN  IF digits = <<>> \/ mag < 0 THEN <<>>
        ELSE IF neg THEN <<-mag>> ELSE <<mag>>

RECURSIVE HexPairs(_)
HexPairs(str) ==
    IF str = <<>> THEN <<>>
    ELSE <<16 * DigitValue(str[1], 16) + DigitValue(str[2], 16)>> \o HexPairs(Tail(Tail(str)))

\* hex::decode: Some(bytes), None for an odd length or a character that is
\* no hex digit
HexDecode(str) ==
    IF Len(str) % 2 = 1 \/ \E i \in 1..Len(str) : DigitValue(str[i], 16) < 0
    THEN <<>>
    ELSE <<HexPairs(str)>>

NoId == [shard |-> NoShard, seqno |-> 0, root_hash |-> <<>>, file_hash |-> <<>>]
IdErr(e) == [res |-> "Err", err |-> e, kind |-> "", id |-> NoId]
IdOk(kind, id) == [res |-> "Ok", err |-> "", kind |-> kind, id |-> id]
\* Result::unwrap on an Err: the thread panics
IdPanic == [res |-> "Panic", err |-> "", kind |-> "", id |-> NoId]

\* parse_block_id, returning IdOk("", id), IdErr(e) or IdPanic
ParseBlockId(str) ==
    LET parts == Split(str, ":")
        shard_id_parts == Split(parts[1], ",")
        wc_part == StripPrefix(shard_id_parts[1], "(")
    IN
    IF wc_part = <<>> THEN IdErr("WorkchainIdNotFound")
    ELSE IF ParseI32(wc_part[1]) = <<>> THEN IdErr("InvalidWorkchainId")
    ELSE IF Len(shard_id_parts) < 2 THEN IdErr("ShardPrefixNotFound")
    ELSE IF ParseUnsigned(shard_id_parts[2], 16, U64_MAX) = <<>> THEN IdErr("InvalidShardPrefix")
    ELSE IF Len(shard_id_parts) < 3 \/ StripSuffix(shard_id_parts[3], ")") = <<>>
         THEN IdErr("SeqnoNotFound")
    ELSE IF ParseUnsigned(StripSuffix(shard_id_parts[3], ")")[1], 10, U32_MAX) = <<>>
         THEN IdErr("InvalidSeqno")
    ELSE
    LET workchain_id == ParseI32(wc_part[1])[1]
        shard_prefix_tagged == ParseUnsigned(shard_id_parts[2], 16, U64_MAX)[1]
        seq_no == ParseUnsigned(StripSuffix(shard_id_parts[3], ")")[1], 10, U32_MAX)[1]
        shard_id == ShardIdentNew(workchain_id, shard_prefix_tagged)
    IN
    IF shard_id = <<>> THEN IdErr("InvalidShardPrefix")
    ELSE IF Len(parts) < 2 THEN IdErr("RootHashNotFound")
    ELSE IF HexDecode(parts[2]) = <<>> THEN IdErr("InvalidRootHash")
    ELSE IF Len(parts) < 3 THEN IdErr("FileHashNotFound")
    ELSE IF HexDecode(parts[3]) = <<>> THEN IdErr("InvalidFileHash")
    ELSE
    LET root_hash == HexDecode(parts[2])[1]
        file_hash == HexDecode(parts[3])[1]
    IN
    \* root_hash.try_into().unwrap(), file_hash.try_into().unwrap()
    IF Len(root_hash) # HashBytes \/ Len(file_hash) # HashBytes THEN IdPanic
    ELSE IdOk("", [shard |-> shard_id[1], seqno |-> seq_no,
                   root_hash |-> root_hash, file_hash |-> file_hash])

\* PackageEntryId::from_filename
FromFilename(str) ==
    LET block_id_pos == Find(str, "(")
    IN  IF block_id_pos = 0 THEN IdErr("InvalidFileName")
        ELSE LET prefix == SubSeq(str, 1, block_id_pos - 1)
                 block_id == SubSeq(str, block_id_pos, Len(str))
                 kind == IF prefix = PACKAGE_ENTRY_BLOCK THEN "Block"
                         ELSE IF prefix = PACKAGE_ENTRY_PROOF THEN "Proof"
                         ELSE IF prefix = PACKAGE_ENTRY_PROOF_LINK THEN "ProofLink"
                         ELSE ""
             IN  IF kind = "" THEN IdErr("InvalidFileName")
                 ELSE LET r == ParseBlockId(block_id)
                      IN  IF r.res = "Ok" THEN IdOk(kind, r.id) ELSE r

(***************************************************************************)
(* The callers of the codec: a name is made from an identifier, or it is   *)
(* such a name with characters removed or replaced, and it is decoded      *)
(***************************************************************************)
Kinds == {"Block", "Proof", "ProofLink"}

\* every legal shard prefix: the descendants of the root down to
\* MAX_SPLIT_DEPTH
LegalPrefixes == {p \in 1..U64_MAX : PrefixLen(p) <= MAX_SPLIT_DEPTH}

ZeroHash == [i \in 1..HashBytes |-> 0]
OnesHash == [i \in 1..HashBytes |-> 255]
MixedHash == [i \in 1..HashBytes |-> (16 * i + 10) % 256]

CodecWorkchains == {MASTERCHAIN_WC, 0, I32_MAX, I32_MIN}
CodecSeqnos == {0, 10, U32_MAX}
CodecHashes == {ZeroHash, OnesHash, MixedHash}

CodecIds ==
    {[shard |-> [workchain |-> wc, prefix |-> p], seqno |-> sq,
      root_hash |-> rh, file_hash |-> fh] :
        wc \in CodecWorkchains, p \in LegalPrefixes,
        sq \in CodecSeqnos, rh \in CodecHashes, fh \in CodecHashes}

\* the names that get damaged
DamagedIds ==
    {id \in CodecIds : /\ id.shard = BaseShard
                       /\ id.seqno = 10
                       /\ id.root_hash = MixedHash
                       /\ id.file_hash = OnesHash}
DamageChars == {"0", "g", ",", ":", "(", ")"}

RemoveAt(str, i, n) == SubSeq(str, 1, i - 1) \o SubSeq(str, i + n, Len(str))

CodecIdle ==
    /\ filename = <<>>
    /\ named = <<>>
    /\ codec_pc = "idle"
    /\ codec_out = IdErr("")

\* id.filename() of an entry identifier
MakeFilename ==
    /\ codec_pc = "idle"
    /\ UNCHANGED NonCodecVars
    /\ \E kind \in Kinds, id \in CodecIds :
         /\ filename' = EntryFilename(kind, id)
         /\ named' = <<[kind |-> kind, id |-> id]>>
    /\ codec_pc' = "name"
    /\ UNCHANGED codec_out

\* an archive whose entry name lacks one or two characters
DamageByRemoval ==
    /\ codec_pc = "name"
    /\ UNCHANGED NonCodecVars
    /\ named # <<>>
    /\ named[1].id \in DamagedIds
    /\ \E i \in 1..Len(filename), n \in 1..2 :
         /\ i + n - 1 <= Len(filename)
         /\ filename' = RemoveAt(filename, i, n)
    /\ named' = <<>>
    /\ UNCHANGED <<codec_pc, codec_out>>

\* an archive whose entry name has one character replaced
DamageByReplacement ==
    /\ codec_pc = "name"
    /\ UNCHANGED NonCodecVars
    /\ named # <<>>
    /\ named[1].id \in DamagedIds
    /\ \E i \in 1..Len(filename), c \in DamageChars :
         /\ filename[i] # c
         /\ filename' = [filename EXCEPT ![i] = c]
    /\ named' = <<>>
    /\ UNCHANGED <<codec_pc, codec_out>>

\* PackageEntryId::from_filename(entry.name)
DecodeFilename ==
    /\ codec_pc = "name"
    /\ UNCHANGED NonCodecVars
    /\ codec_out' = FromFilename(filename)
    /\ codec_pc' = "decoded"
    /\ UNCHANGED <<filename, named>>

(***************************************************************************)
(* deserialize_block called on its own: with the identifier of a payload   *)
(* or any other, and with that payload or with one changed in one place    *)
(***************************************************************************)
\* the hashes an identifier can carry
FileHashes == {Sha256(d) : d \in BlockDatas}
RootHashes == {[i \in 1..HashBytes |-> 0], [i \in 1..HashBytes |-> 255]}

BlockIdle ==
    /\ block_orig = UndecodableData
    /\ decode_id = <<>>
    /\ block_data = UndecodableData
    /\ block_pc = "idle"
    /\ block_out = ""

\* the identifier is computed from a payload
ComputeId ==
    /\ block_pc = "idle"
    /\ UNCHANGED NonBlockVars
    /\ \E data \in BlockDatas :
         /\ block_orig' = data
         /\ block_data' = data
         /\ decode_id' = <<MkBlockId(BaseShard, 1, data)>>
    /\ block_pc' = "named"
    /\ block_out' = ""

\* the identifier comes from elsewhere (an entry name) and carries any hashes
TakeId ==
    /\ block_pc = "idle"
    /\ UNCHANGED NonBlockVars
    /\ \E data \in BlockDatas, fh \in FileHashes, rh \in RootHashes :
         /\ block_orig' = data
         /\ block_data' = data
         /\ decode_id' = <<[shard |-> BaseShard, seqno |-> 1,
                           root_hash |-> rh, file_hash |-> fh]>>
    /\ block_pc' = "named"
    /\ block_out' = ""

\* one place of the payload is changed after the identifier was made
AlterPayload ==
    /\ block_pc = "named"
    /\ block_data = block_orig
    /\ UNCHANGED NonBlockVars
    /\ \E i \in 1..DataLen :
         block_data' = [block_data EXCEPT ![i] = 1 - block_data[i]]
    /\ UNCHANGED <<block_orig, decode_id, block_pc, block_out>>

\* deserialize_block(&decode_id, &block_data)
CallDeserializeBlock ==
    /\ block_pc = "named"
    /\ UNCHANGED NonBlockVars
    /\ block_out' = DeserializeBlock(decode_id[1], block_data)
    /\ block_pc' = "done"
    /\ UNCHANGED <<block_orig, decode_id, block_data>>

(***************************************************************************)
(* ArchivePackageViewReader.  The buffer is its length and what the bytes  *)
(* at the cursor decode to: whether the magic is there, the two declared   *)
(* lengths, whether the name is UTF-8.  A reader meets every byte once, so *)
(* the bytes are chosen when they are read.  usize is 64 bits wide in the  *)
(* program and UsizeBits here, the u16 filename length FilenameSizeBits,   *)
(* the u32 data length DataSizeBits; as in the program a buffer is at most *)
(* isize::MAX long and isize::MAX + u16::MAX + u32::MAX fits a usize.      *)
(***************************************************************************)
UsizeBits == 12
DataSizeBits == 6
FilenameSizeBits == 3
MaxBufLen == 24

USIZE_MAX == 2 ^ UsizeBits - 1
ISIZE_MAX == 2 ^ (UsizeBits - 1) - 1
DATA_SIZE_MAX == 2 ^ DataSizeBits - 1
FILENAME_SIZE_MAX == 2 ^ FilenameSizeBits - 1

ARCHIVE_PREFIX_LEN == 4
ENTRY_PREFIX_LEN == 2
ENTRY_HEADER_LEN == 8

\* a + b on usize: the value in a release build, and whether it overflowed
UsizeAdd(a, b) == [val |-> (a + b) % (USIZE_MAX + 1), ovf |-> a + b > USIZE_MAX]

NoEntryHeader == [magic |-> FALSE, filename_size |-> 0, data_size |-> 0, utf8 |-> FALSE]
NoCall == [op |-> "", out |-> "", err |-> "", from |-> 0, hdr |-> NoEntryHeader]
HeaderOut(out, err, from) ==
    [op |-> "header", out |-> out, err |-> err, from |-> from, hdr |-> NoEntryHeader]
EntryOut(out, err, from, hdr) ==
    [op |-> "entry", out |-> out, err |-> err, from |-> from, hdr |-> hdr]

\* read_package_header(buf, offset): the result and the offset it leaves;
\* magic tells whether buf[end..end + 4] is ARCHIVE_PREFIX
ReadPackageHeader(len, end, magic, checks) ==
    LET sum == UsizeAdd(end, ARCHIVE_PREFIX_LEN)
    IN  IF sum.ovf /\ checks
        THEN [res |-> HeaderOut("Panic", "", end), offset |-> end]
        ELSE IF len < sum.val \/ end > sum.val
        THEN [res |-> HeaderOut("Err", "UnexpectedArchiveEof", end), offset |-> end]
        ELSE IF magic
        THEN [res |-> HeaderOut("Ok", "", end), offset |-> end + ARCHIVE_PREFIX_LEN]
        ELSE [res |-> HeaderOut("Err", "InvalidArchiveHeader", end), offset |-> end]

\* buf.len() < *offset + 8
EntryHeaderMissing(len, end) == len < end

\* a bug: declared lengths that end one byte behind the buffer accepted
EntryBodyMissing_OffByOne(len, end) == len + 1 < end

\* buf.len() < *offset + filename_size + data_size
EntryBodyMissing(len, end) == len < end

\* indexing buf[from..to] panics unless from <= to <= buf.len()
SlicePanics(len, from, to) == from > to \/ to > len

\* ArchivePackageEntryView::read_from_view(buf, offset): the result and the
\* offset it leaves; hdr is what the eight bytes at the offset and the name
\* behind them decode to
ReadFromView(len, off, hdr, checks) ==
    LET hdr_end == UsizeAdd(off, ENTRY_HEADER_LEN)
        body == off + ENTRY_HEADER_LEN
        name_end == UsizeAdd(body, hdr.filename_size)
        data_end == UsizeAdd(name_end.val, hdr.data_size)
        Panic(o) == [res |-> EntryOut("Panic", "", off, hdr), offset |-> o]
        Err(e, o) == [res |-> EntryOut("Err", e, off, hdr), offset |-> o]
    IN  IF hdr_end.ovf /\ checks THEN Panic(off)
        ELSE IF EntryHeaderMissing(len, hdr_end.val)
        THEN [res |-> EntryOut("None", "", off, NoEntryHeader), offset |-> off]
        ELSE IF SlicePanics(len, off, off + ENTRY_PREFIX_LEN) THEN Panic(off)
        ELSE IF ~hdr.magic THEN Err("InvalidArchiveEntryHeader", off)
        ELSE IF SlicePanics(len, off, body) THEN Panic(off + ENTRY_PREFIX_LEN)
        ELSE IF (name_end.ovf \/ data_end.ovf) /\ checks THEN Panic(body)
        ELSE IF EntryBodyMissing(len, data_end.val) THEN Err("UnexpectedEntryEof", body)
        ELSE IF SlicePanics(len, body, name_end.val) THEN Panic(body)
        ELSE IF hdr.filename_size > 0 /\ ~hdr.utf8 THEN Err("InvalidArchiveEntryName", body)
        ELSE IF SlicePanics(len, name_end.val, data_end.val) THEN Panic(name_end.val)
        ELSE [res |-> EntryOut("Entry", "", off, hdr), offset |-> data_end.val]

FilenameSizes == {0, 1, 2, FILENAME_SIZE_MAX}
DataSizes == {0, 1, 3, DATA_SIZE_MAX}
EntryHeaders ==
    [magic : BOOLEAN, filename_size : FilenameSizes, data_size : DataSizes, utf8 : BOOLEAN]

ReaderIdle ==
    /\ buf_len = 0
    /\ buf_magic = FALSE
    /\ overflow_checks = FALSE
    /\ offset = 0
    /\ reader_pc = "idle"
    /\ read_out = NoCall

\* a buffer of any length and content, a debug or a release build
ReaderInit ==
    /\ buf_len \in 0..MaxBufLen
    /\ buf_magic \in BOOLEAN
    /\ overflow_checks \in BOOLEAN
    /\ offset = 0
    /\ reader_pc = "idle"
    /\ read_out = NoCall

\* ArchivePackageViewReader::new(data)
ReaderNew ==
    /\ reader_pc = "idle"
    /\ UNCHANGED NonReaderVars
    /\ LET r == ReadPackageHeader(buf_len, 0, buf_magic, overflow_checks)
       IN  /\ read_out' = r.res
           /\ offset' = r.offset
           /\ reader_pc' = IF r.res.out = "Ok" THEN "open" ELSE "dropped"
    /\ UNCHANGED <<buf_len, buf_magic, overflow_checks>>

\* read_package_header(buf, &mut offset), the public function, called with an
\* offset of the caller's
ReadPackageHeaderAt ==
    /\ reader_pc = "idle"
    /\ UNCHANGED NonReaderVars
    /\ \E end \in (0..buf_len) \cup ((USIZE_MAX - ARCHIVE_PREFIX_LEN)..USIZE_MAX),
          magic \in BOOLEAN :
         LET r == ReadPackageHeader(buf_len, end, magic /\ (end # 0 \/ buf_magic),
                                    overflow_checks)
         IN  /\ read_out' = r.res
             /\ offset' = r.offset
    /\ reader_pc' = "dropped"
    /\ UNCHANGED <<buf_len, buf_magic, overflow_checks>>

\* reader.read_next(); the callers drop the reader on an error
ReadNext ==
    /\ reader_pc = "open"
    /\ UNCHANGED NonReaderVars
    /\ \E hdr \in EntryHeaders :
         LET r == ReadFromView(buf_len, offset, hdr, overflow_checks)
         IN  /\ read_out' = r.res
             /\ offset' = r.offset
             /\ reader_pc' = IF r.res.out \in {"Entry", "None"} THEN "open" ELSE "dropped"
    /\ UNCHANGED <<buf_len, buf_magic, overflow_checks>>

(***************************************************************************)
(* deserialize_block_proof called on its own, for identifiers of any       *)
(* workchain                                                               *)
(***************************************************************************)
ProofWorkchains == {MASTERCHAIN_WC, 0, 1, I32_MIN, I32_MAX}
ProofIds ==
    {MkBlockId([workchain |-> wc, prefix |-> PREFIX_FULL], sq, GoodData) :
        wc \in ProofWorkchains, sq \in 0..1}

ProofIdle ==
    /\ proof_id = <<>>
    /\ proof_data = <<>>
    /\ proof_is_link = FALSE
    /\ proof_pc = "idle"
    /\ proof_out = ""

\* the caller has an identifier, a payload and the kind of proof asked for
TakeProof ==
    /\ proof_pc = "idle"
    /\ UNCHANGED NonProofVars
    /\ \E id \in ProofIds :
         /\ proof_id' = <<id>>
         /\ \E data \in ProofDatas(id) : proof_data' = <<data>>
    /\ proof_is_link' \in BOOLEAN
    /\ proof_pc' = "taken"
    /\ UNCHANGED proof_out

\* deserialize_block_proof(&proof_id, proof_data, is_link)
CallDeserializeBlockProof ==
    /\ proof_pc = "taken"
    /\ UNCHANGED NonProofVars
    /\ proof_out' = DeserializeBlockProof(proof_id[1], proof_data[1], proof_is_link)
    /\ proof_pc' = "done"
    /\ UNCHANGED <<proof_id, proof_data, proof_is_link>>

(***************************************************************************)
(* CmdUpload::run: one task per archive file on a multi-threaded runtime,  *)
(* a semaphore of PERMITS permits, a barrier for the tasks and run itself. *)
(* The semaphore is fair: acquire() queues and permits go to the head of   *)
(* the queue.  What a task does with its archive shows only as the step    *)
(* succeeding or failing.                                                 *)
(***************************************************************************)
MaxFiles == 5
PERMITS == 4

Tasks == 1..MaxFiles

\* Barrier::new(files.len() + 1): wait() returns once that many have called
BarrierOpen == arrived = files + 1

\* a bug: a permit that is dropped does not come back
Release_Leaks(p) == p

\* permits left once a task drops its SemaphorePermit
Release(p) == p + 1

UploadIdle ==
    /\ files = 0
    /\ spawned = 0
    /\ main_pc = "idle"
    /\ task_pc = [t \in Tasks |-> "none"]
    /\ permits = PERMITS
    /\ waiters = <<>>
    /\ arrived = 0

\* run() up to the loop over the files found
UploadInit ==
    /\ files \in 0..MaxFiles
    /\ spawned = 0
    /\ main_pc = "spawning"
    /\ task_pc = [t \in Tasks |-> "none"]
    /\ permits = PERMITS
    /\ waiters = <<>>
    /\ arrived = 0

\* runner.spawn(async move { .. }) for the next file
Spawn ==
    /\ main_pc = "spawning"
    /\ spawned < files
    /\ UNCHANGED NonUploadVars
    /\ spawned' = spawned + 1
    /\ task_pc' = [task_pc EXCEPT ![spawned + 1] = "spawned"]
    /\ UNCHANGED <<files, main_pc, permits, waiters, arrived>>

\* runner.block_on(barier.wait()): run arrives at the barrier
MainWaits ==
    /\ main_pc = "spawning"
    /\ spawned = files
    /\ UNCHANGED NonUploadVars
    /\ arrived' = arrived + 1
    /\ main_pc' = "waiting"
    /\ UNCHANGED <<files, spawned, task_pc, permits, waiters>>

\* the barrier lets run through: Ok(())
MainReturns ==
    /\ main_pc = "waiting"
    /\ BarrierOpen
    /\ UNCHANGED NonUploadVars
    /\ main_pc' = "returned"
    /\ UNCHANGED <<files, spawned, task_pc, permits, waiters, arrived>>

\* semaphore.acquire() polled first: a permit at once, or a place in the queue
TaskRequests(t) ==
    /\ task_pc[t] = "spawned"
    /\ UNCHANGED NonUploadVars
    /\ IF permits > 0 /\ waiters = <<>>
       THEN /\ permits' = permits - 1
            /\ task_pc' = [task_pc EXCEPT ![t] = "reading"]
            /\ UNCHANGED waiters
       ELSE /\ waiters' = Append(waiters, t)
            /\ task_pc' = [task_pc EXCEPT ![t] = "queued"]
            /\ UNCHANGED permits
    /\ UNCHANGED <<files, spawned, main_pc, arrived>>

\* semaphore.acquire().await returns to the head of the queue
TaskAcquires(t) ==
    /\ task_pc[t] = "queued"
    /\ waiters # <<>>
    /\ Head(waiters) = t
    /\ permits > 0
    /\ UNCHANGED NonUploadVars
    /\ permits' = permits - 1
    /\ waiters' = Tail(waiters)
    /\ task_pc' = [task_pc EXCEPT ![t] = "reading"]
    /\ UNCHANGED <<files, spawned, main_pc, arrived>>

\* one of the steps under the permit succeeds and the task goes on
TaskGoesOn(t, at, to) ==
    /\ task_pc[t] = at
    /\ UNCHANGED NonUploadVars
    /\ task_pc' = [task_pc EXCEPT ![t] = to]
    /\ UNCHANGED <<files, spawned, main_pc, permits, waiters, arrived>>

\* one of the steps under the permit fails: `return`, the permit is dropped
\* with the task's locals
TaskGivesUp(t, at) ==
    /\ task_pc[t] = at
    /\ UNCHANGED NonUploadVars
    /\ task_pc' = [task_pc EXCEPT ![t] = "exited"]
    /\ permits' = Release(permits)
    /\ UNCHANGED <<files, spawned, main_pc, waiters, arrived>>

\* tokio::fs::read(&file).await
TaskReads(t) == TaskGoesOn(t, "reading", "parsing")
TaskReadFails(t) == TaskGivesUp(t, "reading")
\* ArchiveData::new(&data)
TaskParses(t) == TaskGoesOn(t, "parsing", "checking")
TaskParseFails(t) == TaskGivesUp(t, "parsing")
\* archive.check(), lowest_mc_id(): an empty archive fails the check
TaskChecks(t) == TaskGoesOn(t, "checking", "uploading")
TaskCheckFails(t) == TaskGivesUp(t, "checking")

\* s3_client.upload(..).await returns; drop(permit); barier.wait() polled first
TaskUploads(t) ==
    /\ task_pc[t] = "uploading"
    /\ UNCHANGED NonUploadVars
    /\ permits' = Release(permits)
    /\ arrived' = arrived + 1
    /\ task_pc' = [task_pc EXCEPT ![t] = "arrived"]
    /\ UNCHANGED <<files, spawned, main_pc, waiters>>

\* the barrier lets the task through: the task ends
TaskEnds(t) ==
    /\ task_pc[t] = "arrived"
    /\ BarrierOpen
    /\ UNCHANGED NonUploadVars
    /\ task_pc' = [task_pc EXCEPT ![t] = "done"]
    /\ UNCHANGED <<files, spawned, main_pc, permits, waiters, arrived>>

TaskStep(t) ==
    \/ TaskRequests(t)
    \/ TaskAcquires(t)
    \/ TaskReads(t)
    \/ TaskReadFails(t)
    \/ TaskParses(t)
    \/ TaskParseFails(t)
    \/ TaskChecks(t)
    \/ TaskCheckFails(t)
    \/ TaskUploads(t)
    \/ TaskEnds(t)

(***************************************************************************)
(* Specifications                                                          *)
(***************************************************************************)
ArchInit ==
    /\ blocks = <<>>
    /\ mc_block_ids = <<>>
    /\ pc = "new"
    /\ new_result = ""
    /\ check_result = NoResult
    /\ entry = NoEntry
    /\ cmd_result = ""
    /\ seen = {}

Init == ArchInit /\ CodecIdle /\ ReaderIdle /\ BlockIdle /\ ProofIdle /\ UploadIdle

\* archives of every kind of entry, assembled and checked
Next ==
    \/ NewReaderError
    \/ NewBadFilename
    \/ NewBlockEntry(NewIds, NewDatas, MaxRecordsNew)
    \/ NewProofEntry(NewIds, MaxRecordsNew)
    \/ NewProofLinkEntry(NewIds, MaxRecordsNew)
    \/ NewSkippedEntry(NewIds)
    \/ NewReturns
    \/ Check

Spec == Init /\ [][Next]_vars

\* archives of blocks over a shard tree, assembled and checked
NextCheck ==
    \/ NewBlockEntry(CheckIds, CheckDatas, MaxRecordsCheck)
    \/ NewReturns
    \/ Check

SpecCheck == Init /\ [][NextCheck]_vars

\* archives of blocks with their proofs, run through the check command
NextCmdCheck ==
    \/ NewBlockEntry(CmdIds, CheckDatas, MaxRecordsCmd)
    \/ NewProofEntry(CmdIds, MaxRecordsCmd)
    \/ NewProofLinkEntry(CmdIds, MaxRecordsCmd)
    \/ NewReturns
    \/ CmdCheckArchive

SpecCmdCheck == Init /\ [][NextCmdCheck]_vars

\* archives of blocks and proofs, their entries in every order, assembled
\* and checked
NextOrder ==
    \/ NewBlockEntry(OrderIds, CheckDatas, MaxRecordsCmd)
    \/ NewProofEntry(OrderIds, MaxRecordsCmd)
    \/ NewProofLinkEntry(OrderIds, MaxRecordsCmd)
    \/ NewReturns
    \/ Check

SpecOrder == Init /\ [][NextOrder]_vars

\* entry names made, damaged and decoded
NextCodec ==
    \/ MakeFilename
    \/ DamageByRemoval
    \/ DamageByReplacement
    \/ DecodeFilename

SpecCodec == Init /\ [][NextCodec]_vars

\* buffers opened and read
NextReader ==
    \/ ReaderNew
    \/ ReadPackageHeaderAt
    \/ ReadNext

InitReader == ArchInit /\ CodecIdle /\ ReaderInit /\ BlockIdle /\ ProofIdle /\ UploadIdle

SpecReader == InitReader /\ [][NextReader]_vars

\* payloads decoded against identifiers
NextBlock ==
    \/ ComputeId
    \/ TakeId
    \/ AlterPayload
    \/ CallDeserializeBlock

SpecBlock == Init /\ [][NextBlock]_vars

\* proofs decoded against identifiers
NextProof ==
    \/ TakeProof
    \/ CallDeserializeBlockProof

SpecProof == Init /\ [][NextProof]_vars

\* the upload command over its files; the runtime runs every task that can
\* run, and run itself
InitUpload == ArchInit /\ CodecIdle /\ ReaderIdle /\ BlockIdle /\ ProofIdle /\ UploadInit

NextUpload ==
    \/ Spawn
    \/ MainWaits
    \/ MainReturns
    \/ \E t \in Tasks : TaskRequests(t)
    \/ \E t \in Tasks : TaskAcquires(t)
    \/ \E t \in Tasks : TaskReads(t)
    \/ \E t \in Tasks : TaskReadFails(t)
    \/ \E t \in Tasks : TaskParses(t)
    \/ \E t \in Tasks : TaskParseFails(t)
    \/ \E t \in Tasks : TaskChecks(t)
    \/ \E t \in Tasks : TaskCheckFails(t)
    \/ \E t \in Tasks : TaskUploads(t)
    \/ \E t \in Tasks : TaskEnds(t)

SpecUpload ==
    /\ InitUpload
    /\ [][NextUpload]_vars
    /\ WF_vars(Spawn \/ MainWaits \/ MainReturns)
    /\ \A t \in Tasks : WF_vars(TaskStep(t))

(***************************************************************************)
(* What the claims about check() speak of, stated on the store             *)
(***************************************************************************)
McSeqnos == DOMAIN mc_block_ids
StoreShards == {id.shard : id \in DOMAIN blocks}
SeqnosOf(sh) == {id.seqno : id \in {x \in DOMAIN blocks : x.shard = sh}}

McContiguous ==
    /\ McSeqnos # {}
    /\ Cardinality(McSeqnos) = SetMax(McSeqnos) - SetMin(McSeqnos) + 1

\* neighbours in a shard's sorted seqnos
AdjacentPairs(sh) ==
    {pr \in SeqnosOf(sh) \X SeqnosOf(sh) :
        /\ pr[1] < pr[2]
        /\ ~\E m \in SeqnosOf(sh) : pr[1] < m /\ m < pr[2]}

\* the shards one split() or one merge() away
OneHop(sh) ==
    {x \in StoreShards :
        \/ ShardSplit(sh) # <<>> /\ x \in {ShardSplit(sh)[1], ShardSplit(sh)[2]}
        \/ ShardMerge(sh) # <<>> /\ x = ShardMerge(sh)[1]}

\* the seqnos `next` of the shard's unexplained gaps
UnexplainedGaps(sh) ==
    {pr[2] : pr \in {q \in AdjacentPairs(sh) :
        /\ q[2] # q[1] + 1
        /\ ~\E x \in OneHop(sh) : (q[2] - 1) \in SeqnosOf(x)}}

Checked == pc = "checked"

\* C1: with a non-empty masterchain index, check fails with
\* InconsistentMasterchainBlocks exactly when the number of index entries
\* differs from highest - lowest + 1
C1_McCountDecidesMcError ==
    (Checked /\ McSeqnos # {}) =>
        ((check_result.err = "InconsistentMasterchainBlocks") <=> ~McContiguous)

\* C1 witness: check has run on an index with a hole and reported it
C1_Witness ==
    /\ Checked
    /\ Cardinality(McSeqnos) >= 2
    /\ ~McContiguous
    /\ check_result.err = "InconsistentMasterchainBlocks"

\* C2: when the masterchain step passes and some shard has an unexplained gap
\* (the seqno before `next` is in neither child and not in the parent), check
\* fails with InconsistentShardchainBlock naming such a shard and the lowest
\* unexplained `next` of it
C2_UnexplainedGapFails ==
    (Checked /\ McContiguous /\ \E sh \in StoreShards : UnexplainedGaps(sh) # {}) =>
        /\ check_result.err = "InconsistentShardchainBlock"
        /\ check_result.shard \in StoreShards
        /\ UnexplainedGaps(check_result.shard) # {}
        /\ check_result.seqno = SetMin(UnexplainedGaps(check_result.shard))

\* C2 witness: the block before the gap exists, but two hops away or in the
\* sibling, and check reported the gap
C2_Witness ==
    /\ Checked
    /\ McContiguous
    /\ check_result.err = "InconsistentShardchainBlock"
    /\ \E far \in StoreShards \ (OneHop(check_result.shard) \cup {check_result.shard}) :
          /\ far.workchain = check_result.shard.workchain
          /\ (check_result.seqno - 1) \in SeqnosOf(far)

\* C3: check returns Ok whenever the masterchain index is a non-empty
\* contiguous run and every adjacent pair of every shard is consecutive or
\* has its predecessor in a child or in the parent
C3_ConsistentStorePasses ==
    (Checked /\ McContiguous /\ \A sh \in StoreShards : UnexplainedGaps(sh) = {}) =>
        check_result = CheckOk

\* C3 witness: check passed a store in which a shard has a gap that the
\* right child explains, and another one a store of single-block shards
C3_Witness ==
    /\ Checked
    /\ check_result = CheckOk
    /\ \E sh \in StoreShards :
          /\ \E pr \in AdjacentPairs(sh) : pr[2] # pr[1] + 1
          /\ ShardSplit(sh) # <<>>
          /\ \A pr \in AdjacentPairs(sh) :
                pr[2] # pr[1] + 1 => (pr[2] - 1) \in SeqnosOf(ShardSplit(sh)[2])

\* C4: on an empty masterchain index check fails with EmptyArchive, whatever
\* shardchain records the store holds
C4_EmptyIndexIsEmptyArchive ==
    (Checked /\ McSeqnos = {}) => check_result = CheckErr("EmptyArchive")

\* C4 witness: check reported EmptyArchive on a store that holds shardchain
\* blocks with an unexplained gap
C4_Witness ==
    /\ Checked
    /\ McSeqnos = {}
    /\ \E sh \in StoreShards : UnexplainedGaps(sh) # {}
    /\ check_result.err = "EmptyArchive"

(***************************************************************************)
(* What the claims about the codec speak of, stated on the name            *)
(***************************************************************************)
Decoded == codec_pc = "decoded"

\* the "(workchain,prefix,seqno)" fields of a name
ShardFieldsOf(str) ==
    Split(Split(SubSeq(str, Find(str, "("), Len(str)), ":")[1], ",")
HashFieldsOf(str) == Tail(Split(SubSeq(str, Find(str, "("), Len(str)), ":"))

\* the name has a kind prefix, and its workchain, shard-prefix and seqno
\* fields all parse
ShardFieldsParse(str) ==
    /\ Find(str, "(") # 0
    /\ SubSeq(str, 1, Find(str, "(") - 1) \in {FilenamePrefix(k) : k \in Kinds}
    /\ Len(ShardFieldsOf(str)) >= 3
    /\ ParseI32(Tail(ShardFieldsOf(str)[1])) # <<>>
    /\ ParseUnsigned(ShardFieldsOf(str)[2], 16, U64_MAX) # <<>>
    /\ StripSuffix(ShardFieldsOf(str)[3], ")") # <<>>
    /\ ParseUnsigned(StripSuffix(ShardFieldsOf(str)[3], ")")[1], 10, U32_MAX) # <<>>

\* ... but the (workchain, tagged prefix) pair is no legal shard
ShardIsIllegal(str) ==
    /\ ShardFieldsParse(str)
    /\ ShardIdentNew(ParseI32(Tail(ShardFieldsOf(str)[1]))[1],
                     ParseUnsigned(ShardFieldsOf(str)[2], 16, U64_MAX)[1]) = <<>>

\* everything in front of the hashes is fine and both hashes are hex, one of
\* them of another length than a hash has
HashHasWrongLength(str) ==
    /\ ShardFieldsParse(str)
    /\ ~ShardIsIllegal(str)
    /\ Len(HashFieldsOf(str)) >= 2
    /\ HexDecode(HashFieldsOf(str)[1]) # <<>>
    /\ HexDecode(HashFieldsOf(str)[2]) # <<>>
    /\ \/ Len(HashFieldsOf(str)[1]) # 2 * HashBytes
       \/ Len(HashFieldsOf(str)[2]) # 2 * HashBytes

\* a name whose shard-prefix field is no hexadecimal number
NameWithUnparseablePrefix ==
    PACKAGE_ENTRY_BLOCK \o <<"(", "0", ",", "g", ",", "1", ")", ":">>
    \o HexEncodeUpper(ZeroHash) \o <<":">> \o HexEncodeUpper(ZeroHash)

\* C5: from_filename(id.filename()) returns the same kind with a BlockId
\* equal to the original in every field, for every kind and identifier
C5_FilenameRoundTrip ==
    (Decoded /\ named # <<>>) => codec_out = IdOk(named[1].kind, named[1].id)

\* C5 witness: a proof link of a negative workchain, with a prefix that needs
\* zero padding, the largest seqno, an all-zero root hash and an all-0xFF
\* file hash came back from its name
C5_Witness ==
    /\ Decoded
    /\ named # <<>>
    /\ named[1].kind = "ProofLink"
    /\ named[1].id.shard.workchain = I32_MIN
    /\ named[1].id.shard.prefix < 16
    /\ named[1].id.seqno = U32_MAX
    /\ named[1].id.root_hash = ZeroHash
    /\ named[1].id.file_hash = OnesHash
    /\ codec_out.res = "Ok"
    /\ codec_out.id = named[1].id

\* C6: from_filename returns an identifier or an error for every name and
\* never aborts; a hex hash of another length than a hash has yields the
\* invalid-root-hash or the invalid-file-hash error
C6_FromFilenameNeverAborts ==
    Decoded =>
        /\ codec_out.res \in {"Ok", "Err"}
        /\ HashHasWrongLength(filename) =>
              /\ codec_out.res = "Err"
              /\ codec_out.err \in {"InvalidRootHash", "InvalidFileHash"}

\* C9: when the workchain, shard-prefix and seqno fields parse but the pair
\* is no legal shard, from_filename fails with another error than the one it
\* returns for a shard-prefix field that is no hexadecimal number
C9_IllegalShardHasItsOwnError ==
    (Decoded /\ ShardIsIllegal(filename)) =>
        /\ codec_out.res = "Err"
        /\ codec_out.err # FromFilename(NameWithUnparseablePrefix).err

(***************************************************************************)
(* What the claims about the reader speak of                               *)
(***************************************************************************)
\* bytes between the cursor of the last read_next and the end of the buffer
RemainingAt(from) == buf_len - from

\* C7: at an entry boundary with fewer than 8 bytes left read_next returns
\* None and leaves the cursor, so every later call returns None too; with 8
\* bytes or more left, the entry magic there and declared lengths that exceed
\* what is left behind the entry header, it fails with UnexpectedEntryEof
C7_ShortTailEndsLongEntryFails ==
    /\ [](read_out.op = "entry" =>
            /\ RemainingAt(read_out.from) < ENTRY_HEADER_LEN =>
                  (read_out.out = "None" /\ offset = read_out.from)
            /\ (/\ RemainingAt(read_out.from) >= ENTRY_HEADER_LEN
                /\ read_out.hdr.magic
                /\ read_out.hdr.filename_size + read_out.hdr.data_size
                      > RemainingAt(read_out.from) - ENTRY_HEADER_LEN) =>
                  (read_out.out = "Err" /\ read_out.err = "UnexpectedEntryEof"))
    /\ [][(read_out.op = "entry" /\ read_out.out = "None") =>
             (read_out'.out = "None" /\ offset' = offset)]_vars

\* C7 witness: an entry was read, then an entry whose declared lengths end
\* one byte behind the buffer was refused
C7_Witness ==
    /\ read_out.op = "entry"
    /\ read_out.from > ARCHIVE_PREFIX_LEN
    /\ read_out.hdr.magic
    /\ read_out.hdr.filename_size + read_out.hdr.data_size
          = RemainingAt(read_out.from) - ENTRY_HEADER_LEN + 1
    /\ read_out.out = "Err"
    /\ read_out.err = "UnexpectedEntryEof"

\* a call met a sum that does not fit the machine word
SumExceedsWord ==
    \/ read_out.op = "header" /\ read_out.from + ARCHIVE_PREFIX_LEN > USIZE_MAX
    \/ read_out.op = "entry" /\ read_out.from + ENTRY_HEADER_LEN > USIZE_MAX
    \/ /\ read_out.op = "entry"
       /\ read_out.hdr.magic
       /\ read_out.from + ENTRY_HEADER_LEN + read_out.hdr.filename_size
             + read_out.hdr.data_size > USIZE_MAX

\* C8: every addition of a length to the cursor is guarded: when the sum
\* exceeds the word's maximum the reader returns UnexpectedArchiveEof or
\* UnexpectedEntryEof, and it never aborts
C8_OverflowIsEofNeverAbort ==
    /\ read_out.out # "Panic"
    /\ SumExceedsWord =>
          /\ read_out.out = "Err"
          /\ read_out.err \in {"UnexpectedArchiveEof", "UnexpectedEntryEof"}

(***************************************************************************)
(* What the claim about deserialize_block speaks of                        *)
(***************************************************************************)
Deserialized == block_pc = "done"
\* the identifier was computed from the payload as it was
IdOfOriginal == decode_id = <<MkBlockId(BaseShard, 1, block_orig)>>
Altered == block_data # block_orig

\* C10: deserialize_block succeeds only if the SHA-256 of the payload is the
\* identifier's file hash and the root hash of the decoded cell tree its root
\* hash; a payload with another SHA-256 fails with InvalidFileHash whatever
\* else is wrong with it; a payload changed in one place after its identifier
\* was computed never decodes
C10_HashesGateDecoding ==
    Deserialized =>
        /\ block_out = "Ok" =>
              /\ Sha256(block_data) = decode_id[1].file_hash
              /\ BocDecode(block_data) # <<>>
              /\ ReprHash(BocDecode(block_data)[1]) = decode_id[1].root_hash
        /\ Sha256(block_data) # decode_id[1].file_hash => block_out = "InvalidFileHash"
        /\ (IdOfOriginal /\ Altered) => block_out # "Ok"

\* C10 witness: a payload that decoded under its identifier was changed in
\* one place into one that is no bag of cells, and was refused for its file
\* hash
C10_Witness ==
    /\ Deserialized
    /\ IdOfOriginal
    /\ DeserializeBlock(decode_id[1], block_orig) = "Ok"
    /\ Altered
    /\ BocDecode(block_data) = <<>>
    /\ block_out = "InvalidFileHash"

(***************************************************************************)
(* What the claims about the loop of ArchiveData::new speak of             *)
(***************************************************************************)
\* a step that is one loop iteration on an entry with a well-formed name
EntryStep == pc = "new" /\ entry' # entry /\ entry'.id # <<>>

InMasterchain(id) == id.shard.workchain = MASTERCHAIN_WC

\* a Proof outside the masterchain, a ProofLink inside it
NotApplicable(e) ==
    \/ e.kind = "Proof" /\ ~InMasterchain(e.id[1])
    \/ e.kind = "ProofLink" /\ InMasterchain(e.id[1])

\* the slot of the record map an entry of that kind is stored in, None when
\* the map has no record for the identifier
SlotOf(blks, e) ==
    IF e.id[1] \notin DOMAIN blks THEN <<>>
    ELSE IF e.kind = "Block" THEN blks[e.id[1]].block
    ELSE blks[e.id[1]].proof

\* C11: a well-named Proof entry outside the masterchain or ProofLink entry
\* inside it leaves the record map and the masterchain index as they are,
\* cannot fail whatever its payload is, and the loop goes on; every other
\* well-named entry is written to its slot or ends new() with an error
C11_InapplicableEntriesAreSkipped ==
    [][EntryStep =>
         IF NotApplicable(entry')
         THEN /\ blocks' = blocks
              /\ mc_block_ids' = mc_block_ids
              /\ pc' = "new"
              /\ new_result' = new_result
         ELSE \/ pc' = "new" /\ SlotOf(blocks', entry') # <<>>
              \/ pc' = "done" /\ new_result' \notin {"", "Ok"}]_vars

\* C11 witness: with a record in the store, an entry that is not needed and
\* whose payload does not decode was passed over, and the loop is still on
C11_Witness ==
    /\ pc = "new"
    /\ blocks # <<>>
    /\ entry.id # <<>>
    /\ NotApplicable(entry)
    /\ ~entry.payload_ok
    /\ entry.outcome = "skipped"

\* C15: in one pass of ArchiveData::new a record is created by the first
\* entry stored for its identifier, each of its two slots is written at most
\* once, also when the archive repeats an entry, and no record is removed
C15_SlotsWrittenOnce ==
    [][(EntryStep /\ pc' = "new") =>
          /\ DOMAIN blocks \subseteq DOMAIN blocks'
          /\ entry'.outcome = "stored" =>
                /\ entry'.id[1] \in DOMAIN blocks'
                /\ SlotOf(blocks, entry') = <<>>]_vars

\* the masterchain identifiers that are keys of the record map
McKeys == {id \in DOMAIN blocks : InMasterchain(id)}

\* C16: while new() runs and when it has returned its store, the keys of the
\* masterchain index are the seqnos of the masterchain keys of the record
\* map and every value of the index is a key of the record map with that
\* seqno; a masterchain Proof entry registers its seqno even without a Block
\* entry; registering a seqno that is present does not make the index larger
C16_IndexMatchesRecords ==
    /\ [](new_result \in {"", "Ok"} =>
            /\ DOMAIN mc_block_ids = {id.seqno : id \in McKeys}
            /\ \A sq \in DOMAIN mc_block_ids :
                 /\ mc_block_ids[sq] \in McKeys
                 /\ mc_block_ids[sq].seqno = sq)
    /\ [][(EntryStep /\ pc' = "new" /\ entry'.outcome = "stored"
             /\ InMasterchain(entry'.id[1])) =>
            /\ entry'.id[1].seqno \in DOMAIN mc_block_ids'
            /\ Cardinality(DOMAIN mc_block_ids') =
                  Cardinality(DOMAIN mc_block_ids)
                  + (IF entry'.id[1].seqno \in DOMAIN mc_block_ids THEN 0 ELSE 1)]_vars

\* C16 witness: two masterchain identifiers of one seqno are in the record
\* map, one of them by its Proof entry alone, and the index holds that seqno
\* once
C16_Witness ==
    /\ pc = "new"
    /\ Cardinality(McKeys) = 2
    /\ Cardinality(DOMAIN mc_block_ids) = 1
    /\ \E id \in McKeys : blocks[id].block = <<>> /\ blocks[id].proof # <<>>

\* the identifiers of the entries stored, whatever their order was
SeenIds == {e[2] : e \in seen}

\* a store made of a set of identifiers alone: records without payloads, an
\* index with some identifier of each masterchain seqno
RecordsOfIds(ids) == [id \in ids |-> EmptyEntry]
IndexOfIds(ids) ==
    [sq \in {id.seqno : id \in {x \in ids : InMasterchain(x)}} |->
        CHOOSE id \in ids : InMasterchain(id) /\ id.seqno = sq]

\* C18: what check() returns on the assembled store is decided by the set of
\* the entries' identifiers alone: two archives with the same entries in
\* different orders, all decoding, get Ok, EmptyArchive and
\* InconsistentMasterchainBlocks alike, whatever the order and the payloads
C18_CheckDependsOnIdentifierSet ==
    pc = "checked" =>
        check_result \in CheckOutcomes(IndexOfIds(SeenIds), RecordsOfIds(SeenIds))

\* C18 witness: both masterchain blocks of seqno 0 and the one of seqno 2
\* were stored, the index holds the second block of seqno 0 because it came
\* last, and check() found the masterchain gap
C18_Witness ==
    /\ pc = "checked"
    /\ MkBlockId(MC, 0, GoodData) \in DOMAIN blocks
    /\ 0 \in DOMAIN mc_block_ids
    /\ mc_block_ids[0] = MkBlockId(MC, 0, OtherGoodData)
    /\ 2 \in DOMAIN mc_block_ids
    /\ check_result.err = "InconsistentMasterchainBlocks"

(***************************************************************************)
(* What the claim about the check command speaks of                        *)
(***************************************************************************)
\* C12: the check command reports success only for a store on which
\* ArchiveData::check succeeds: a gap in the masterchain seqnos or an
\* unexplained gap in a shardchain makes it fail
C12_CheckCommandRunsCheck ==
    (pc = "reported" /\ cmd_result = "Ok") =>
        CheckOutcomes(mc_block_ids, blocks) = {CheckOk}

(***************************************************************************)
(* What the claims about the upload command speak of                       *)
(***************************************************************************)
\* between acquiring the permit and releasing it
Holding(t) == task_pc[t] \in {"reading", "parsing", "checking", "uploading"}
Holders == {t \in Tasks : Holding(t)}
Scheduled(t) == task_pc[t] \in {"spawned", "queued"}

\* C13: the completion barrier is released in the end and CmdUpload::run
\* returns, whatever the outcomes of the tasks and however they interleave
C13_RunReturns == <>(main_pc = "returned")

\* C17: never more than 4 tasks hold a permit; no permit is lost, also when
\* a task exits early on a failure; every scheduled task gets a permit in
\* the end
C17_PermitsBoundAndReturn ==
    /\ [](Cardinality(Holders) <= 4)
    /\ [](permits + Cardinality(Holders) = PERMITS)
    /\ \A t \in Tasks : Scheduled(t) ~> Holding(t)

\* C17 witness: the four permits are out, a fifth task waits in the queue
C17_Witness ==
    /\ Cardinality(Holders) = 4
    /\ permits = 0
    /\ Len(waiters) = 1
    /\ task_pc[Head(waiters)] = "queued"

(***************************************************************************)
(* What the claim about deserialize_block_proof speaks of                  *)
(***************************************************************************)
\* the payload is a proof and names the identifier
WellFormedProof ==
    proof_data[1].boc /\ proof_data[1].loads /\ proof_data[1].proof_for = proof_id[1]

\* C14: on a well-formed proof of the given identifier, is_link = false
\* fails with ProofForNonMasterchainBlock for every identifier outside the
\* masterchain (every workchain but -1); with is_link = true or a
\* masterchain identifier that error is never returned
C14_FullProofOnlyForMasterchain ==
    proof_pc = "done" =>
        /\ (WellFormedProof /\ ~proof_is_link /\ proof_id[1].shard.workchain # -1) =>
              proof_out = "ProofForNonMasterchainBlock"
        /\ (proof_is_link \/ proof_id[1].shard.workchain = -1) =>
              proof_out # "ProofForNonMasterchainBlock"

====
